---- MODULE Spec2Model ----
(***************************************************************************)
(* A model of the announcement crawlers of On-Korea/onKorea-AI:            *)
(*   src/junggu.py  - the keyword variant (auto_map_key, locked section)   *)
(*   src/pr-1.py    - the alias-table variant ("simpler variant")          *)
(*   src/pr-2.py    - the single-page alias-table variant                  *)
(*                                                                         *)
(* A string is a sequence of characters.  A character is written as a      *)
(* short ASCII name; a Korean word the code only ever tests as a whole     *)
(* (a keyword, an alias, a plain word) is one character of the model:      *)
(*   "TRI" U+25B6 (the announcement marker)    "o"   U+3147 (jamo bullet)  *)
(*   "O"   U+25CB (circle bullet)              "REF" U+203B (reference)    *)
(*   "FC"  U+FF1A (full-width colon)           "EN"  U+2013 (en dash)      *)
(*   "ZW"  U+200B  "NBSP" U+00A0  "TAB" U+0009  "NL" U+000A  "VT" U+000B   *)
(*   ":" "-" "/" "." "<" ">" " " "1" "2" are themselves                    *)
(*   the words are romanised: "daesang", "gigan", "bangbeop", ...          *)
(***************************************************************************)
EXTENDS Integers, Sequences, FiniteSets, TLC

VARIABLES
    pc,                \* position of the run that is modelled
    s, out, out2,      \* _canon_text: the input, canon(s), canon(canon(s))
    df, saved, resaved, \* save_records: input rows, rows kept, rows kept again
    \* parse_detail_lines_to_fields of junggu.py, line by line
    fields, current_section, locked_section,
    branch,            \* the branch of the loop body the last line took
    scanned,           \* the detail lines read so far
    variant,           \* which script runs: "keyword" (junggu.py), "alias" (pr-1.py)
    fallback_title,    \* split_items: the page title handed in
    lines,             \* split_items: the stripped non-blank lines of the text
    idx,               \* split_items: the line `for ln in lines` is at
    items, current_title, current_details,   \* split_items: its locals
    title_at,          \* history: the line that opened current_title, 0 if none
    item_at,           \* history: for each item the line that opened it
    records,           \* build_records: the records returned
    cleaned,           \* trim_noise_lines: the lines kept so far
    \* the batch driver of junggu.py (__main__)
    pages,             \* for each list URL what its list pages answer
    fails,             \* the detail URLs whose build_records raises
    list_at,           \* the list URL `for list_url in LIST_URL` is at
    page,              \* collect_detail_urls_from_list: the page requested
    urls,              \* collect_detail_urls_from_list: the URLs collected
    url_at,            \* the URL `for u in urls` is at
    all_records,       \* the records gathered so far
    tried,             \* history: the detail URLs build_records was called on
    written,           \* what save_records was given
    \* auto_map_key on its own
    script,            \* the script whose auto_map_key is called
    raw_key,           \* the key handed to normalize_key and auto_map_key
    mapped_key,        \* what auto_map_key returned
    \* fetch_html
    answers,           \* what requests.get gives at each attempt
    attempt,           \* the turn `for i in range(3)` is at, from 1
    fetched,           \* what fetch_html returned
    \* build_record of liveinkorea.py
    pairs,             \* the label and value of each dd.call_tell of the page
    pair_at,           \* the dd the loop is at
    live_fields,       \* its local fields
    period_parts,      \* its local period_parts
    head_lines,        \* its local lines
    body_text,         \* the text of the body node
    live_record        \* the record returned

vars == <<pc, s, out, out2, df, saved, resaved,
          fields, current_section, locked_section, branch, scanned,
          variant, fallback_title, lines, idx, items, current_title,
          current_details, title_at, item_at, records,
          cleaned, pages, fails, list_at, page, urls, url_at, all_records,
          tried, written, script, raw_key, mapped_key,
          answers, attempt, fetched,
          pairs, pair_at, live_fields, period_parts, head_lines, body_text,
          live_record>>

(***************************************************************************)
(* Bounds of the model.                                                    *)
(***************************************************************************)
MaxStr == 4
MaxRecs == 3
MaxScan == 4
MaxDoc == 3
MaxTrim == 3
MaxPages == 2
MaxKey == 3
MaxPairs == 3

(***************************************************************************)
(* Strings.                                                                *)
(***************************************************************************)
\* the value None of a column or of dict.get
None == <<"\\None">>

\* what str.strip() and the regex class \s take as white space
WS == {" ", "TAB", "NL", "VT", "NBSP"}

ZERO_WIDTH == {"ZW"}

RECURSIVE LStripSet(_, _)
LStripSet(str, cs) ==
    IF str # <<>> /\ Head(str) \in cs THEN LStripSet(Tail(str), cs) ELSE str

RECURSIVE RStripSet(_, _)
RStripSet(str, cs) ==
    IF str # <<>> /\ str[Len(str)] \in cs
    THEN RStripSet(SubSeq(str, 1, Len(str) - 1), cs)
    ELSE str

\* str.strip(chars)
StripSet(str, cs) == RStripSet(LStripSet(str, cs), cs)

\* str.strip()
Strip(str) == StripSet(str, WS)

\* re.sub of a one-character class by the empty string
Remove(str, cs) == SelectSeq(str, LAMBDA c : c \notin cs)

\* str.replace / re.sub of single characters of a class by one character
Replace(str, cs, by) == [i \in 1..Len(str) |-> IF str[i] \in cs THEN by ELSE str[i]]

\* the length of the longest prefix of str made of characters of cs
RECURSIVE RunLen(_, _)
RunLen(str, cs) ==
    IF str # <<>> /\ Head(str) \in cs THEN 1 + RunLen(Tail(str), cs) ELSE 0

\* re.sub(r"[cs]+", by, str) restricted to the runs that hold a character of
\* `need`: each maximal run of characters of cs that holds one is replaced by
\* `by`, every other character is kept
RECURSIVE SubRuns(_, _, _, _)
SubRuns(str, cs, need, by) ==
    IF str = <<>> THEN <<>>
    ELSE LET n == RunLen(str, cs) IN
         IF n = 0 THEN <<Head(str)>> \o SubRuns(Tail(str), cs, need, by)
         ELSE IF \E i \in 1..n : str[i] \in need
              THEN by \o SubRuns(SubSeq(str, n + 1, Len(str)), cs, need, by)
              ELSE SubSeq(str, 1, n) \o SubRuns(SubSeq(str, n + 1, Len(str)), cs, need, by)

Range(f) == {f[i] : i \in DOMAIN f}

\* str.split on the characters of cs: the non-empty pieces between them
RECURSIVE SplitOn(_, _)
SplitOn(str, cs) ==
    LET n == RunLen(str, {c \in Range(str) : c \notin cs}) IN
    IF str = <<>> THEN <<>>
    ELSE IF n = 0 THEN SplitOn(Tail(str), cs)
    ELSE <<SubSeq(str, 1, n)>> \o SplitOn(SubSeq(str, n + 1, Len(str)), cs)

RECURSIVE Join(_, _)
\* sep.join(parts)
Join(parts, sep) ==
    IF parts = <<>> THEN <<>>
    ELSE IF Len(parts) = 1 THEN parts[1]
    ELSE parts[1] \o sep \o Join(Tail(parts), sep)

(***************************************************************************)
(* _canon_text (pr-1.py 343-352, pr-2.py 218-226).                         *)
(***************************************************************************)
\* re.sub(r"[ \t]+", " ", s)
CollapseBlanks(str) == SubRuns(str, {" ", "TAB"}, {" ", "TAB"}, <<" ">>)

\* re.sub(r"\s*\n\s*", "\n", s): a white-space run that holds a line break
\* becomes one line break
TrimAroundBreaks(str) == SubRuns(str, WS, {"NL"}, <<"NL">>)

\* re.sub(r"\n{2,}", "\n", s)
CollapseBreaks(str) == SubRuns(str, {"NL"}, {"NL"}, <<"NL">>)

CanonTextSwapped(x) ==
    IF x = None THEN <<>>
    ELSE Strip(CollapseBreaks(TrimAroundBreaks(
             Replace(CollapseBlanks(Remove(x, ZERO_WIDTH)), {"NBSP"}, " "))))

_canon_text(x) ==
    IF x = None THEN <<>>
    ELSE Strip(CollapseBreaks(TrimAroundBreaks(
             CollapseBlanks(Replace(Remove(x, ZERO_WIDTH), {"NBSP"}, " ")))))

(***************************************************************************)
(* save_records (pr-1.py 354-370, pr-2.py 228-236): the columns, the       *)
(* canonical comparison columns and drop_duplicates(keep="first").         *)
(***************************************************************************)
COLS == <<"region", "source_category", "item_title", "target",
          "application_period", "content", "application_method", "contact",
          "notes", "purchase_method", "location", "full_text", "source_url">>

ColSet == {COLS[i] : i \in 1..Len(COLS)}

compare_cols == ColSet \ {"source_url", "full_text"}

CanonRowSwapped(r) ==
    [c \in ColSet |-> IF c \in compare_cols THEN CanonTextSwapped(r[c]) ELSE r[c]]

\* for c in compare_cols: df[c] = df[c].apply(_canon_text)
CanonRow(r) == [c \in ColSet |-> IF c \in compare_cols THEN _canon_text(r[c]) ELSE r[c]]

\* the subset= of drop_duplicates
DupKey(r) == [c \in compare_cols |-> r[c]]

RECURSIVE KeepLast(_)
KeepLast(rows) ==
    IF rows = <<>> THEN <<>>
    ELSE IF \E j \in 2..Len(rows) : DupKey(rows[j]) = DupKey(Head(rows))
         THEN KeepLast(Tail(rows))
         ELSE <<Head(rows)>> \o KeepLast(Tail(rows))

RECURSIVE KeepFirst(_, _)
KeepFirst(rows, seen) ==
    IF rows = <<>> THEN <<>>
    ELSE IF DupKey(Head(rows)) \in seen
         THEN KeepFirst(Tail(rows), seen)
         ELSE <<Head(rows)>> \o KeepFirst(Tail(rows), seen \cup {DupKey(Head(rows))})

DropDuplicatesLast(rows) == KeepLast(rows)

\* df.drop_duplicates(subset=compare_cols, keep="first").reset_index(drop=True)
DropDuplicates(rows) == KeepFirst(rows, {})

\* the rows save_records writes to the csv, json and xlsx files
SaveRows(recs) == DropDuplicates([i \in 1..Len(recs) |-> CanonRow(recs[i])])

(***************************************************************************)
(* Characters of a page line.                                              *)
(***************************************************************************)
\* [가-힣]: the words of the model
Hangul == {"daesang", "gigan", "sincheong", "bangbeop", "jangso", "munui", "jeopsu",
           "naeyong", "junggu", "bangmun", "annae", "hwagin", "botong", "cheombu",
           "geomjin", "ilsi"}

Digits == {"1", "2"}

\* [가-힣A-Za-z0-9]
Alnum == Hangul \cup Digits

\* [:：\-–], the delimiters of KEY_VALUE_PAT and of the unlocking split
Delims == {":", "FC", "-", "EN"}

\* the prefix of str before the first character of cs, all of str without one
RECURSIVE Before(_, _)
Before(str, cs) ==
    IF str = <<>> \/ Head(str) \in cs THEN <<>>
    ELSE <<Head(str)>> \o Before(Tail(str), cs)

\* the rest of str after the first character of cs, empty without one
After(str, cs) == SubSeq(str, Len(Before(str, cs)) + 2, Len(str))

Has(str, cs) == \E i \in 1..Len(str) : str[i] \in cs

(***************************************************************************)
(* junggu.py: normalize_key and auto_map_key.                              *)
(***************************************************************************)
\* [★☆•·▶▷■○●※\-\=\+\(\)\[\]\{\}<>], the ones the model has
KeySymbols == {"TRI", "O", "REF", "-", "<", ">", "LB", "RB"}

normalize_key(k) ==
    LET k1 == Replace(Remove(k, ZERO_WIDTH), {"NBSP"}, " ")
        k2 == Remove(k1, KeySymbols)
        k3 == Remove(k2, WS)
        k4 == Before(k3, {":"} \cup Digits)
    IN  Strip(k4)

\* the keyword groups; a keyword is in the key when one of its words is
auto_map_key_method_first(pre_norm) ==
    IF Has(pre_norm, {"bangbeop"}) THEN "method"
    ELSE IF Has(pre_norm, {"daesang"}) THEN "target"
    ELSE IF Has(pre_norm, {"gigan", "ilsi"}) THEN "period"
    ELSE IF Has(pre_norm, {"munui", "jeopsu"}) THEN "contact"
    ELSE IF Has(pre_norm, {"jangso"}) THEN "location"
    ELSE IF Has(pre_norm, {"naeyong"}) THEN "content"
    ELSE "None"

auto_map_key(pre_norm) ==
    IF Has(pre_norm, {"daesang"}) THEN "target"
    ELSE IF Has(pre_norm, {"gigan", "ilsi"}) THEN "period"
    ELSE IF Has(pre_norm, {"bangbeop"}) THEN "method"
    ELSE IF Has(pre_norm, {"munui", "jeopsu"}) THEN "contact"
    ELSE IF Has(pre_norm, {"jangso"}) THEN "location"
    ELSE IF Has(pre_norm, {"naeyong"}) THEN "content"
    ELSE "None"

\* auto_map_key of liveinkorea.py: the same order, other keywords
auto_map_key_live(pre_norm) ==
    IF Has(pre_norm, {"daesang"}) THEN "target"
    ELSE IF Has(pre_norm, {"gigan", "ilsi"}) THEN "period"
    ELSE IF Has(pre_norm, {"bangbeop", "sincheong", "jeopsu"}) THEN "method"
    ELSE IF Has(pre_norm, {"munui"}) THEN "contact"
    ELSE IF Has(pre_norm, {"jangso"}) THEN "location"
    ELSE IF Has(pre_norm, {"naeyong"}) THEN "content"
    ELSE "None"

(***************************************************************************)
(* junggu.py: parse_detail_lines_to_fields, one iteration of its loop.     *)
(* The state of the loop is [fields, current_section, locked_section];     *)
(* branch names the branch of the loop body that handled the line.         *)
(***************************************************************************)
FieldKeys == {"target", "period", "content", "method", "contact", "location",
              "application_period", "application_method", "notes", "purchase_method"}

\* fields = {}
NoFields == [k \in FieldKeys |-> None]

\* fields.get(k, '')
Get(flds, k) == IF flds[k] = None THEN <<>> ELSE flds[k]

\* f"{fields.get(k, '')} / {v}".strip(" /")
JoinStrip(old, v) == StripSet(old \o <<" ", "/", " ">> \o v, {" ", "/"})

\* re.sub(r"^[\s○●※\-–•·∙⋅☆▶▷]*", "", text)
LockedCheckKey(text) == LStripSet(text, WS \cup {"O", "REF", "-", "EN", "TRI"})

\* auto_map_key(normalize_key(check_key.split(":", 1)[0].split("-", 1)[0]))
LockedMapped(text) ==
    auto_map_key(normalize_key(Before(Before(LockedCheckKey(text), {":"}), {"-"})))

UnlockValWholeLine(text) == Strip(text)

\* the value of an unlocking line: the text after its first delimiter
UnlockVal(text) == IF Has(text, Delims) THEN Strip(After(text, Delims)) ELSE <<>>

\* the bullet removal of an unlocked line (junggu.py 196-204)
Stripped(text) ==
    IF LStripSet(text, WS) # <<>> /\ Head(LStripSet(text, WS)) = "REF" THEN Strip(text)
    ELSE LET t == LStripSet(text, WS)
             r == IF t = <<>> THEN <<>> ELSE LStripSet(Tail(t), WS)
         IN  IF t # <<>> /\ Head(t) \in {"TRI", "O", "-", "EN"} /\ r # <<>> /\ Head(r) \in Alnum
             THEN Strip(r)
             ELSE Strip(text)

\* m_dash = re.match(r"^([가-힣\s]+?)\s*[-–]\s*(.+)$", stripped)
DashMatches(str) ==
    LET key == Before(str, {"-", "EN"}) IN
    /\ Has(str, {"-", "EN"})
    /\ key # <<>>
    /\ \A i \in 1..Len(key) : key[i] \in Hangul \cup WS
    /\ Len(key) + 1 < Len(str)

ParseLockedAppendsToContent(st, text) ==
    LET new_mapped == LockedMapped(text) IN
    IF new_mapped \notin {"None", st.locked_section}
    THEN [st EXCEPT !.locked_section = "None",
                    !.current_section = new_mapped,
                    !.fields[new_mapped] = JoinStrip(Get(st.fields, new_mapped), UnlockVal(text)),
                    !.branch = "unlock"]
    ELSE [st EXCEPT !.fields["content"] = JoinStrip(Get(st.fields, "content"), text),
                    !.branch = "locked"]

\* junggu.py 172-192
ParseLocked(st, text) ==
    LET new_mapped == LockedMapped(text) IN
    IF new_mapped \notin {"None", st.locked_section}
    THEN [st EXCEPT !.locked_section = "None",
                    !.current_section = new_mapped,
                    !.fields[new_mapped] = JoinStrip(Get(st.fields, new_mapped), UnlockVal(text)),
                    !.branch = "unlock"]
    ELSE [st EXCEPT !.fields[st.locked_section] = JoinStrip(Get(st.fields, st.locked_section), text),
                    !.branch = "locked"]

\* current_section = mapped; if mapped == "method": locked_section = "method"
Resolve(st, mapped, br) ==
    [st EXCEPT !.current_section = mapped,
               !.locked_section = IF mapped = "method" THEN "method" ELSE st.locked_section,
               !.branch = br]

\* junggu.py 194-251
ParseUnlocked(st, text) ==
    LET stripped == Stripped(text)
        ckey == Before(stripped, {":", "FC"})
        cval == After(stripped, {":", "FC"})
        cmapped == auto_map_key(normalize_key(ckey))
        dkey == Before(stripped, {"-", "EN"})
        dval == After(stripped, {"-", "EN"})
        dmapped == auto_map_key(normalize_key(dkey))
        bmapped == auto_map_key(normalize_key(stripped))
        target == IF st.current_section = "None" THEN "content" ELSE st.current_section
    IN  IF Has(stripped, {":", "FC"}) /\ cmapped # "None"
        THEN [Resolve(st, cmapped, "colon") EXCEPT
                 !.fields[cmapped] = JoinStrip(Get(st.fields, cmapped),
                                        Strip(ckey) \o <<" ", ":", " ">> \o Strip(cval))]
        ELSE IF DashMatches(stripped) /\ dmapped # "None"
        THEN [Resolve(st, dmapped, "dash") EXCEPT
                 !.fields[dmapped] = JoinStrip(Get(st.fields, dmapped),
                                        Strip(dkey) \o <<" ", "-", " ">> \o Strip(dval))]
        ELSE IF bmapped # "None"
        THEN Resolve(st, bmapped, "header")
        ELSE [st EXCEPT !.fields[target] = JoinStrip(Get(st.fields, target), text),
                        !.branch = "plain"]

\* the body of `for raw in detail_lines` (junggu.py 165-251)
ParseLineJ(st, raw) ==
    LET text == Strip(Remove(raw, ZERO_WIDTH)) IN
    IF text = <<>> THEN [st EXCEPT !.branch = "blank"]
    ELSE IF st.locked_section # "None" THEN ParseLocked(st, text)
    ELSE ParseUnlocked(st, text)

\* fields = {}; current_section = None; locked_section = None
ParseStartJ ==
    [fields |-> NoFields, current_section |-> "None", locked_section |-> "None",
     branch |-> "start"]

RECURSIVE ParseFromJ(_, _)
ParseFromJ(st, detail_lines) ==
    IF detail_lines = <<>> THEN st
    ELSE ParseFromJ(ParseLineJ(st, Head(detail_lines)), Tail(detail_lines))

\* parse_detail_lines_to_fields(detail_lines) of junggu.py
ParseFieldsJ(detail_lines) == ParseFromJ(ParseStartJ, detail_lines).fields


(***************************************************************************)
(* pr-1.py: normalize_key, KEY_ALIAS, append_field, trim_noise_lines and   *)
(* parse_detail_lines_to_fields.                                           *)
(***************************************************************************)
\* normalize_key of pr-1.py: no symbol, no dash, no white space
normalize_key_alias(k) ==
    LET k1 == Replace(Remove(k, ZERO_WIDTH), {"NBSP"}, " ")
        k2 == Remove(k1, {"LB", "RB"})
        k3 == Remove(k2, {"-", "EN"})
    IN  Remove(k3, WS)

\* KEY_ALIAS.get(pre_norm), for the aliases made of the words of the model
KEY_ALIAS(pre_norm) ==
    CASE pre_norm = <<"daesang">>               -> "target"
      [] pre_norm = <<"naeyong">>               -> "content"
      [] pre_norm = <<"sincheong", "bangbeop">> -> "application_method"
      [] pre_norm = <<"sincheong">>             -> "application_method"
      [] pre_norm = <<"munui">>                 -> "contact"
      [] pre_norm = <<"gigan">>                 -> "application_period"
      [] pre_norm = <<"sincheong", "gigan">>    -> "application_period"
      [] pre_norm = <<"jangso">>                -> "location"
      [] pre_norm = <<"ilsi">>                  -> "application_period"
      [] OTHER                                  -> "None"

append_field(flds, key, val) ==
    IF val = <<>> THEN flds
    ELSE IF flds[key] # None /\ flds[key] # <<>>
         THEN [flds EXCEPT ![key] = flds[key] \o <<" ", "/", " ">> \o val]
         ELSE [flds EXCEPT ![key] = val]

\* the first place where NOISE_LINE_PAT finds a match, 0 without one:
\* the survey word, or a bracketed tag "[x]" (the other survey phrases are
\* not among the words of the model)
RECURSIVE NoiseAt(_, _, _)
NoiseAt(text, i, minInner) ==
    IF i > Len(text) THEN 0
    ELSE IF text[i] = "botong" THEN i
    ELSE IF text[i] = "LB" /\ \E j \in (i + 1 + minInner)..Len(text) : text[j] = "RB" THEN i
    ELSE NoiseAt(text, i + 1, minInner)

\* re.match(r"^ㅇ\s*문\s*의", text)
IsContactLine(text) ==
    /\ text # <<>>
    /\ Head(text) = "o"
    /\ LStripSet(Tail(text), WS) # <<>>
    /\ Head(LStripSet(Tail(text), WS)) = "munui"

RECURSIVE TrimFrom(_, _)
TrimFrom(lns, acc) ==
    IF lns = <<>> THEN acc
    ELSE LET ln == Head(lns)
             text == Strip(ln)
             cut == NoiseAt(text, 1, 0)
             kept == Strip(IF cut = 0 THEN text ELSE SubSeq(text, 1, cut - 1))
         IN  IF IsContactLine(text)
             THEN TrimFrom(Tail(lns), IF kept # <<>> THEN Append(acc, kept) ELSE acc)
             ELSE IF NoiseAt(text, 1, 1) # 0 THEN acc
             ELSE TrimFrom(Tail(lns), Append(acc, ln))

\* trim_noise_lines(lines) of pr-1.py
trim_noise_lines(lns) == TrimFrom(lns, <<>>)

\* strip_leading_oi: re.sub(r"^ㅇ\s*", "", s)
strip_leading_oi(str) ==
    IF str # <<>> /\ Head(str) = "o" THEN LStripSet(Tail(str), WS) ELSE str

\* the place of the delimiter KEY_VALUE_PAT splits at, 0 when it does not
\* match: the first delimiter after the first character, if text follows it
KeyValueAt(h) ==
    LET i == IF h = <<>> THEN 0 ELSE Len(Before(Tail(h), Delims)) + 2 IN
    IF h # <<>> /\ i < Len(h) THEN i ELSE 0

\* the contact value stored as it is written
ContactValueUncut(v) == v

\* the contact value as it is stored (pr-1.py 229-234), for the cut words of
\* the model
ContactValue(v) == Strip(Before(v, {"LB", "cheombu", "hwagin"}))

\* the longest prefix of words that is an alias: the number of its words
RECURSIVE LongestAlias(_, _)
LongestAlias(words, i) ==
    IF i = 0 THEN 0
    ELSE IF KEY_ALIAS(normalize_key_alias(Join(SubSeq(words, 1, i), <<" ">>))) # "None" THEN i
    ELSE LongestAlias(words, i - 1)

\* len() of a character of the model: a word of the pages is two syllables
CharLen(c) == IF c \in Hangul THEN 2 ELSE 1

\* the second syllable of a word
SecondSyllable(c) ==
    CASE c = "daesang" -> "sang"    [] c = "gigan" -> "gan"
      [] c = "sincheong" -> "cheong" [] c = "bangbeop" -> "beop"
      [] c = "jangso" -> "so"       [] c = "munui" -> "ui"
      [] c = "jeopsu" -> "su"       [] c = "naeyong" -> "yong"
      [] c = "junggu" -> "gu"       [] c = "bangmun" -> "mun"
      [] c = "annae" -> "nae"       [] c = "hwagin" -> "in"
      [] c = "botong" -> "tong"     [] c = "cheombu" -> "bu"
      [] c = "geomjin" -> "jin"     [] c = "ilsi" -> "si"
      [] OTHER -> c

\* len(str)
RECURSIVE StrLen(_)
StrLen(str) == IF str = <<>> THEN 0 ELSE CharLen(Head(str)) + StrLen(Tail(str))

\* str[k:]
RECURSIVE SliceFrom(_, _)
SliceFrom(str, k) ==
    IF k = 0 \/ str = <<>> THEN str
    ELSE IF CharLen(Head(str)) <= k THEN SliceFrom(Tail(str), k - CharLen(Head(str)))
    ELSE <<SecondSyllable(Head(str))>> \o Tail(str)

\* the body of `for raw in detail_lines` (pr-1.py 216-276); st is
\* [fields, current_section]
ParseLineP(st, raw) ==
    LET raw_norm == Strip(Remove(raw, ZERO_WIDTH))
        h == strip_leading_oi(raw_norm)
        at == KeyValueAt(h)
        pre == Strip(SubSeq(h, 1, at - 1))
        post == Strip(SubSeq(h, at + 1, Len(h)))
        k_std == KEY_ALIAS(normalize_key_alias(pre))
        v == IF k_std = "contact" THEN ContactValue(post) ELSE post
        words == SplitOn(h, WS)
        n == LongestAlias(words, Len(words))
        pre_part == Join(SubSeq(words, 1, n), <<" ">>)
        k_head == KEY_ALIAS(normalize_key_alias(pre_part))
        rest == Strip(SliceFrom(h, StrLen(pre_part)))
        target == IF st.current_section = "None" THEN "content" ELSE st.current_section
    IN  IF raw_norm = <<>> THEN st
        ELSE IF at # 0 /\ k_std # "None"
        THEN [fields |-> append_field(st.fields, k_std, v), current_section |-> k_std]
        ELSE IF n # 0
        THEN [fields |-> append_field(st.fields, k_head, rest), current_section |-> k_head]
        ELSE [st EXCEPT !.fields = append_field(st.fields, target, raw_norm)]

RECURSIVE ParseFromP(_, _)
ParseFromP(st, detail_lines) ==
    IF detail_lines = <<>> THEN st
    ELSE ParseFromP(ParseLineP(st, Head(detail_lines)), Tail(detail_lines))

\* parse_detail_lines_to_fields(detail_lines) of pr-1.py
ParseFieldsP(detail_lines) ==
    ParseFromP([fields |-> NoFields, current_section |-> "None"], detail_lines).fields

(***************************************************************************)
(* split_items, item_block_text and build_records of junggu.py and pr-1.py.*)
(***************************************************************************)
\* lines = [ln.strip() for ln in text.splitlines() if ln.strip()], of the
\* lines of the text
StrippedLines(doc) ==
    SelectSeq([i \in 1..Len(doc) |-> Strip(doc[i])], LAMBDA ln : ln # <<>>)

\* ln.startswith(drop_tokens), for the drop word of the model
Dropped(ln) == Head(ln) = "cheombu"

\* re.match(r"^\d+\.\s*[A-Za-z가-힣]", ln)
NumberedTitle(ln) ==
    LET n == RunLen(ln, Digits)
        rest == LStripSet(SubSeq(ln, n + 2, Len(ln)), WS)
    IN  /\ n > 0
        /\ Len(ln) > n
        /\ ln[n + 1] = "."
        /\ rest # <<>>
        /\ Head(rest) \in Hangul \cup {"a", "b"}

\* a line of the shape <title>: both scripts ask for one character or more
\* between the brackets
AngleTitle(ln) == Len(ln) >= 3 /\ Head(ln) = "<" /\ ln[Len(ln)] = ">"

\* the line opens a new item
IsTitleJ(ln) == Head(ln) = "TRI" \/ AngleTitle(ln) \/ NumberedTitle(ln)
IsTitleP(ln) == Head(ln) = "TRI" \/ AngleTitle(ln)

\* the title the line gives: junggu.py cuts the leading markers and blanks,
\* pr-1.py the leading markers or the two brackets
TitleJ(ln) == Strip(LStripSet(ln, {"TRI"} \cup WS))
TitleP(ln) ==
    IF Head(ln) = "TRI" THEN Strip(LStripSet(ln, {"TRI"}))
    ELSE Strip(SubSeq(ln, 2, Len(ln) - 1))

\* `if x:` for a string or None
Truthy(x) == x # None /\ x # <<>>

\* flush without the test on current_details
flush_always(st) ==
    [st EXCEPT
        !.items = IF Truthy(st.current_title)
                  THEN Append(st.items, [item_title |-> Strip(st.current_title),
                                         detail_lines |-> st.current_details])
                  ELSE st.items,
        !.current_title = None,
        !.current_details = <<>>]

\* flush_if_has_details(); st is [items, current_title, current_details]
flush_if_has_details(st) ==
    [st EXCEPT
        !.items = IF Truthy(st.current_title) /\ st.current_details # <<>>
                  THEN Append(st.items, [item_title |-> Strip(st.current_title),
                                         detail_lines |-> st.current_details])
                  ELSE st.items,
        !.current_title = None,
        !.current_details = <<>>]

\* re.sub(r"[<〈《>〉》]", "", x).strip()
Unbracket(x) == Strip(Remove(x, {"<", ">"}))

\* the body of `for ln in lines` of junggu.py
SplitLineJ(st, ln, fallback) ==
    IF Dropped(ln) THEN st
    ELSE IF IsTitleJ(ln)
    THEN [flush_if_has_details(st) EXCEPT !.current_title = TitleJ(ln)]
    ELSE IF Truthy(fallback) /\ Unbracket(ln) = Unbracket(fallback) THEN st
    ELSE IF Truthy(st.current_title)
    THEN [st EXCEPT !.current_details = Append(@, ln)]
    ELSE st

\* the body of `for ln in lines` of pr-1.py
SplitLineP(st, ln) ==
    LET n == Len(st.current_details) IN
    IF Dropped(ln) THEN st
    ELSE IF IsTitleP(ln)
    THEN [flush_if_has_details(st) EXCEPT !.current_title = TitleP(ln)]
    ELSE IF Head(ln) = "o"
    THEN IF st.current_title = None THEN st
         ELSE [st EXCEPT !.current_details = Append(@, ln)]
    ELSE IF n > 0
    THEN [st EXCEPT !.current_details[n] = @ \o <<" ">> \o ln]
    ELSE IF Truthy(st.current_title)
    THEN [st EXCEPT !.current_details = Append(@, ln)]
    ELSE st

SplitLine(v, st, ln, fallback) ==
    IF v = "keyword" THEN SplitLineJ(st, ln, fallback) ELSE SplitLineP(st, ln)

\* fallback_title or "(본문)"
FallbackTitle(fallback) == IF Truthy(fallback) THEN fallback ELSE <<"(bonmun)">>

\* what follows the loop: the last flush, and the single item of a text
\* without items
SplitEnd(st, all, fallback) ==
    LET f == flush_if_has_details(st) IN
    IF f.items = <<>> /\ all # <<>>
    THEN [f EXCEPT !.items = <<[item_title |-> FallbackTitle(fallback),
                                detail_lines |-> all]>>]
    ELSE f

RECURSIVE SplitFrom(_, _, _, _, _)
SplitFrom(v, st, rest, all, fallback) ==
    IF rest = <<>> THEN SplitEnd(st, all, fallback).items
    ELSE SplitFrom(v, SplitLine(v, st, Head(rest), fallback), Tail(rest), all, fallback)

\* split_items(text, fallback_title), on the stripped lines of the text
split_items(v, all, fallback) ==
    SplitFrom(v, [items |-> <<>>, current_title |-> None, current_details |-> <<>>],
              all, all, fallback)

\* item_block_text without the title line
item_block_text_body_only(title, detail_lines) ==
    Join(SelectSeq([i \in 1..Len(detail_lines) |-> Strip(detail_lines[i])],
                   LAMBDA ln : ln # <<>>), <<"NL">>)

\* item_block_text(item) of pr-1.py
item_block_text(title, detail_lines) ==
    LET t == Strip(title)
        body == Join(SelectSeq([i \in 1..Len(detail_lines) |-> Strip(detail_lines[i])],
                               LAMBDA ln : ln # <<>>), <<"NL">>)
    IN  IF t # <<>> /\ body # <<>> THEN <<"TRI", " ">> \o t \o <<"NL">> \o body
        ELSE IF t # <<>> THEN <<"TRI", " ">> \o t
        ELSE body

\* "▶ " + it["item_title"] + "\n" + "\n".join(it["detail_lines"])
FullTextJ(title, detail_lines) ==
    <<"TRI", " ">> \o title \o <<"NL">> \o Join(detail_lines, <<"NL">>)

COLS_J == {"region", "source_category", "item_title", "target", "period",
           "content", "method", "contact", "location", "full_text", "source_url"}

\* the record build_records of junggu.py makes of an item
RecordJ(it) ==
    LET f == ParseFieldsJ(it.detail_lines) IN
    [c \in COLS_J |->
        CASE c = "region"          -> <<"junggu">>
          [] c = "source_category" -> <<>>
          [] c = "item_title"      -> it.item_title
          [] c = "full_text"       -> FullTextJ(it.item_title, it.detail_lines)
          [] c = "source_url"      -> <<"url">>
          [] OTHER                 -> Get(f, c)]

\* the record build_records of pr-1.py makes of an item
RecordP(it) ==
    LET clean_lines == trim_noise_lines(it.detail_lines)
        f == ParseFieldsP(clean_lines)
    IN  [c \in ColSet |->
        CASE c = "region"          -> <<"junggu">>
          [] c = "source_category" -> <<"policy">>
          [] c = "item_title"      -> it.item_title
          [] c = "full_text"       -> item_block_text(it.item_title, clean_lines)
          [] c = "source_url"      -> <<"url">>
          [] OTHER                 -> f[c]]

build_records(v, its) ==
    [i \in 1..Len(its) |-> IF v = "keyword" THEN RecordJ(its[i]) ELSE RecordP(its[i])]

(***************************************************************************)
(* trim_noise_lines of pr-1.py and pr-2.py, one line at a time.            *)
(***************************************************************************)
\* the contact test of pr-2.py: re.match(r"^(?:[ㅇ○]\s*)?문\s*의", t)
IsContactLine2(text) ==
    LET rest == IF text # <<>> /\ Head(text) \in {"o", "O"}
                THEN LStripSet(Tail(text), WS) ELSE text
    IN  rest # <<>> /\ Head(rest) = "munui"

\* re.split(<noise>, text)[0].strip()
CutAtNoise(text) ==
    LET cut == NoiseAt(text, 1, 0) IN
    Strip(IF cut = 0 THEN text ELSE SubSeq(text, 1, cut - 1))

\* one turn of `for ln in lines` of pr-1.py: the lines to add to cleaned, and
\* whether the loop breaks
TrimLineP(ln) ==
    LET text == Strip(ln) IN
    IF IsContactLine(text)
    THEN [keep |-> IF CutAtNoise(text) # <<>> THEN <<CutAtNoise(text)>> ELSE <<>>,
          stop |-> FALSE]
    ELSE IF NoiseAt(text, 1, 1) # 0 THEN [keep |-> <<>>, stop |-> TRUE]
    ELSE [keep |-> <<ln>>, stop |-> FALSE]

\* one turn of `for ln in lines` of pr-2.py: a contact line cut to nothing
\* falls through to the noise test with the empty text
TrimLine2(ln) ==
    LET text == Strip(ln)
        t == IF IsContactLine2(text) THEN CutAtNoise(text) ELSE text
    IN  IF IsContactLine2(text) /\ t # <<>> THEN [keep |-> <<t>>, stop |-> FALSE]
        ELSE IF NoiseAt(t, 1, 1) # 0 THEN [keep |-> <<>>, stop |-> TRUE]
        ELSE [keep |-> <<ln>>, stop |-> FALSE]

TrimLine(v, ln) == IF v = "alias" THEN TrimLineP(ln) ELSE TrimLine2(ln)

(***************************************************************************)
(* pr-2.py: split_items, parse_detail_lines_to_fields and build_records.   *)
(***************************************************************************)
\* NAV_DROPS, the one of the model: the line "홈"
NAV_DROPS == {<<"hom">>}

\* split_items(text, fallback_title) of pr-2.py: always one item
split_items_single(all, fallback) ==
    <<[item_title |-> FallbackTitle(fallback),
       detail_lines |-> SelectSeq(all, LAMBDA ln : ln \notin NAV_DROPS)]>>

\* strip_leading_marker: re.sub(r"^[ㅇ○]\s*", "", s)
strip_leading_marker(str) ==
    IF str # <<>> /\ Head(str) \in {"o", "O"} THEN LStripSet(Tail(str), WS) ELSE str

\* the body of `for raw in detail_lines` (pr-2.py 138-179)
ParseLine2(st, raw) ==
    LET raw_norm == Strip(Remove(raw, ZERO_WIDTH))
        h == strip_leading_marker(raw_norm)
        at == KeyValueAt(h)
        pre == Strip(SubSeq(h, 1, at - 1))
        post == Strip(SubSeq(h, at + 1, Len(h)))
        k_std == KEY_ALIAS(normalize_key_alias(pre))
        v == IF k_std = "contact" THEN ContactValue(post) ELSE post
        words == SplitOn(h, WS)
        n == LongestAlias(words, Len(words))
        pre_part == Join(SubSeq(words, 1, n), <<" ">>)
        k_head == KEY_ALIAS(normalize_key_alias(pre_part))
        rest == Strip(SliceFrom(h, StrLen(pre_part)))
        target == IF st.current_section = "None" THEN "content" ELSE st.current_section
    IN  IF raw_norm = <<>> THEN st
        ELSE IF at # 0 /\ k_std # "None"
        THEN [fields |-> append_field(st.fields, k_std, v), current_section |-> k_std]
        ELSE IF n # 0
        THEN [fields |-> append_field(st.fields, k_head, rest), current_section |-> k_head]
        ELSE [st EXCEPT !.fields = append_field(st.fields, target, raw_norm)]

RECURSIVE ParseFrom2(_, _)
ParseFrom2(st, detail_lines) ==
    IF detail_lines = <<>> THEN st
    ELSE ParseFrom2(ParseLine2(st, Head(detail_lines)), Tail(detail_lines))

\* parse_detail_lines_to_fields(detail_lines) of pr-2.py
ParseFields2(detail_lines) ==
    ParseFrom2([fields |-> NoFields, current_section |-> "None"], detail_lines).fields

RECURSIVE TrimFrom2(_, _)
TrimFrom2(lns, acc) ==
    IF lns = <<>> THEN acc
    ELSE IF TrimLine2(Head(lns)).stop THEN acc
    ELSE TrimFrom2(Tail(lns), acc \o TrimLine2(Head(lns)).keep)

\* the record build_records of pr-2.py makes of an item
Record2(it) ==
    LET clean_lines == TrimFrom2(it.detail_lines, <<>>)
        f == ParseFields2(clean_lines)
    IN  [c \in ColSet |->
        CASE c = "region"          -> <<"junggu">>
          [] c = "source_category" -> <<"culture">>
          [] c = "item_title"      -> it.item_title
          [] c = "full_text"       -> item_block_text(it.item_title, clean_lines)
          [] c = "source_url"      -> <<"url">>
          [] OTHER                 -> f[c]]

build_records_single(its) == [i \in 1..Len(its) |-> Record2(its[i])]

(***************************************************************************)
(* Inputs of the two save_records specifications.                          *)
(***************************************************************************)
CanonChars == {"a", " ", "TAB", "NBSP", "ZW", "NL", "VT"}

RECURSIVE StringsUpTo(_, _)
StringsUpTo(cs, n) ==
    IF n = 0 THEN {<<>>}
    ELSE LET shorter == StringsUpTo(cs, n - 1) IN
         shorter \cup {Append(x, c) : x \in shorter, c \in cs}

CanonInputs == StringsUpTo(CanonChars, MaxStr) \cup {None}

\* the contents two crawls of one announcement give, None when the field is
\* missing, and a content with other words
ContentPool == {None, <<"a", " ", "b">>, <<"a", "NBSP", " ", "b", "NL">>, <<"a", "b">>}

RowOf(content, target, url, full) ==
    [c \in ColSet |->
        CASE c = "region"          -> <<"junggu">>
          [] c = "source_category" -> <<"policy">>
          [] c = "item_title"      -> <<"t">>
          [] c = "target"          -> target
          [] c = "content"         -> content
          [] c = "full_text"       -> full
          [] c = "source_url"      -> url
          [] OTHER                 -> None]

RowPool ==
    {RowOf(c, t, u, <<"TRI", " ", "t">> \o (IF c = None THEN <<>> ELSE <<"NL">> \o c)) :
        c \in ContentPool, t \in {None, <<>>}, u \in {<<"u1">>, <<"u2">>}}

RECURSIVE SeqsUpTo(_, _)
SeqsUpTo(S, n) ==
    IF n = 0 THEN {<<>>}
    ELSE LET shorter == SeqsUpTo(S, n - 1) IN
         shorter \cup {Append(x, e) : x \in shorter, e \in S}

(***************************************************************************)
(* SpecCanon: _canon_text applied to a string and to its own result.       *)
(***************************************************************************)
scanVars == <<fields, current_section, locked_section, branch, scanned>>

ScanIdle ==
    /\ fields = NoFields
    /\ current_section = "None"
    /\ locked_section = "None"
    /\ branch = "start"
    /\ scanned = <<>>

ScanState ==
    [fields |-> fields, current_section |-> current_section,
     locked_section |-> locked_section, branch |-> branch]

pipeVars == <<variant, fallback_title, lines, idx, items, current_title,
              current_details, title_at, item_at, records>>

PipeIdle ==
    /\ variant = "keyword"
    /\ fallback_title = <<>>
    /\ lines = <<>>
    /\ idx = 1
    /\ items = <<>>
    /\ current_title = None
    /\ current_details = <<>>
    /\ title_at = 0
    /\ item_at = <<>>
    /\ records = <<>>

\* the variables of the runs of single functions
batchVars == <<pages, fails, list_at, page, urls, url_at, all_records,
               tried, written>>

BatchIdle ==
    /\ pages = <<>>
    /\ fails = {}
    /\ list_at = 1
    /\ page = 1
    /\ urls = <<>>
    /\ url_at = 1
    /\ all_records = <<>>
    /\ tried = <<>>
    /\ written = <<>>

keyVars == <<script, raw_key, mapped_key>>

KeyIdle == script = "junggu" /\ raw_key = <<>> /\ mapped_key = "None"

fetchVars == <<answers, attempt, fetched>>

FetchIdle == answers = <<>> /\ attempt = 1 /\ fetched = None

headVars == <<pairs, pair_at, live_fields, period_parts, head_lines, body_text,
              live_record>>

HeadIdle ==
    /\ pairs = <<>>
    /\ pair_at = 1
    /\ live_fields = <<>>
    /\ period_parts = <<>>
    /\ head_lines = <<>>
    /\ body_text = <<>>
    /\ live_record = <<>>

auxVars == <<cleaned, batchVars, keyVars, fetchVars, headVars>>

AuxIdle == cleaned = <<>> /\ BatchIdle /\ KeyIdle /\ FetchIdle /\ HeadIdle

canonVars == <<s, out, out2>>
dedupVars == <<df, saved, resaved>>

CanonIdle == s = <<>> /\ out = <<>> /\ out2 = <<>>
DedupIdle == df = <<>> /\ saved = <<>> /\ resaved = <<>>

InitCanon ==
    /\ pc = "start"
    /\ s \in CanonInputs
    /\ out = <<>>
    /\ out2 = <<>>
    /\ DedupIdle
    /\ ScanIdle
    /\ PipeIdle
    /\ AuxIdle

Canon ==
    /\ pc = "start"
    /\ out' = _canon_text(s)
    /\ pc' = "canon"
    /\ UNCHANGED <<s, out2, dedupVars, scanVars, pipeVars, auxVars>>

Recanon ==
    /\ pc = "canon"
    /\ out2' = _canon_text(out)
    /\ pc' = "recanon"
    /\ UNCHANGED <<s, out, dedupVars, scanVars, pipeVars, auxVars>>

NextCanon == Canon \/ Recanon

SpecCanon == InitCanon /\ [][NextCanon]_vars

(***************************************************************************)
(* SpecDedup: save_records on a list of records and on the rows it kept.   *)
(***************************************************************************)
InitDedup ==
    /\ pc = "start"
    /\ df \in SeqsUpTo(RowPool, MaxRecs)
    /\ saved = <<>>
    /\ resaved = <<>>
    /\ CanonIdle
    /\ ScanIdle
    /\ PipeIdle
    /\ AuxIdle

Save ==
    /\ pc = "start"
    /\ saved' = SaveRows(df)
    /\ pc' = "saved"
    /\ UNCHANGED <<df, resaved, canonVars, scanVars, pipeVars, auxVars>>

Resave ==
    /\ pc = "saved"
    /\ resaved' = SaveRows(saved)
    /\ pc' = "resaved"
    /\ UNCHANGED <<df, saved, canonVars, scanVars, pipeVars, auxVars>>

NextDedup == Save \/ Resave

SpecDedup == InitDedup /\ [][NextDedup]_vars

(***************************************************************************)
(* SpecScan: the loop of parse_detail_lines_to_fields of junggu.py over    *)
(* the detail lines of one item, one line per step.                        *)
(***************************************************************************)
\* the detail lines an item can hold (stripped, non-blank: split_items)
DetailPool ==
    {<<"o", " ", "sincheong", "bangbeop">>,
     <<"1", ".", " ", "bangmun", " ", "jeopsu">>,
     <<"2", ".", " ", "bangmun", " ", "jeopsu">>,
     <<"o", " ", "jangso", " ", ":", " ", "junggu">>,
     <<"o", " ", "sincheong", "bangbeop", " ", ":", " ", "bangmun">>,
     <<"sincheong", "bangbeop", " ", "-", " ", "bangmun">>,
     <<"o", " ", "gigan", " ", "-", " ", "junggu">>,
     <<"jeopsu", " ", "hwagin">>,
     <<"junggu">>,
     <<"REF", " ", "sincheong", "bangbeop", " ", ":", " ", "bangmun">>,
     <<"-", " ", "jangso", " ", "annae">>,
     <<"ZW">>,
     <<"junggu", "/">>}

InitScan ==
    /\ pc = "scan"
    /\ ScanIdle
    /\ CanonIdle
    /\ DedupIdle
    /\ PipeIdle
    /\ AuxIdle

\* one iteration of `for raw in detail_lines`
ScanLine ==
    /\ pc = "scan"
    /\ Len(scanned) < MaxScan
    /\ \E raw \in DetailPool :
          LET st == ParseLineJ(ScanState, raw) IN
          /\ fields' = st.fields
          /\ current_section' = st.current_section
          /\ locked_section' = st.locked_section
          /\ branch' = st.branch
          /\ scanned' = Append(scanned, raw)
    /\ UNCHANGED <<pc, canonVars, dedupVars, pipeVars, auxVars>>

NextScan == ScanLine

SpecScan == InitScan /\ [][NextScan]_vars

(***************************************************************************)
(* A run of build_records on one page, for either script: split_items line *)
(* by line, then the records of the items.                                 *)
(***************************************************************************)
\* the lines a page text is made of, as text.splitlines() gives them
DocPool ==
    {<<"TRI", " ", "geomjin">>,
     <<"<", "annae", ">">>,
     <<"o", " ", "daesang", " ", ":", " ", "junggu">>,
     <<"o", " ", "gigan", " ", ":", " ", "1", ".", "2">>,
     <<"o", " ", "munui", " ", ":", " ", "hwagin">>,
     <<"o", " ", "sincheong", "bangbeop", " ", ":", " ", "bangmun">>,
     <<"botong">>,
     <<" ", "junggu">>,
     <<"cheombu", " ", "1">>,
     <<"1", ".", " ", "annae">>,
     <<" ">>,
     <<"geomjin">>}

\* the page titles handed to split_items: none, or the text of a line
TitlePool == {<<>>, <<"geomjin">>}

InitPipe ==
    /\ pc = "split"
    /\ variant \in {"keyword", "alias"}
    /\ fallback_title \in TitlePool
    /\ \E doc \in SeqsUpTo(DocPool, MaxDoc) : lines = StrippedLines(doc)
    /\ idx = 1
    /\ items = <<>>
    /\ current_title = None
    /\ current_details = <<>>
    /\ title_at = 0
    /\ item_at = <<>>
    /\ records = <<>>
    /\ CanonIdle
    /\ DedupIdle
    /\ ScanIdle
    /\ AuxIdle

SplitState ==
    [items |-> items, current_title |-> current_title,
     current_details |-> current_details]

\* the line opens a new title
Opens(ln) ==
    /\ ~Dropped(ln)
    /\ IF variant = "keyword" THEN IsTitleJ(ln) ELSE IsTitleP(ln)

\* one turn of `for ln in lines`
SplitStep ==
    /\ pc = "split"
    /\ idx <= Len(lines)
    /\ LET nx == SplitLine(variant, SplitState, lines[idx], fallback_title) IN
        /\ items' = nx.items
        /\ current_title' = nx.current_title
        /\ current_details' = nx.current_details
        /\ item_at' = IF Len(nx.items) > Len(items) THEN Append(item_at, title_at)
                      ELSE item_at
    /\ title_at' = IF Opens(lines[idx]) THEN idx ELSE title_at
    /\ idx' = idx + 1
    /\ UNCHANGED <<pc, variant, fallback_title, lines, records,
                   canonVars, dedupVars, scanVars, auxVars>>

\* the end of the loop: the last flush, the fallback item, return items
SplitReturn ==
    /\ pc = "split"
    /\ idx > Len(lines)
    /\ LET f == flush_if_has_details(SplitState)
           nx == SplitEnd(SplitState, lines, fallback_title)
       IN
        /\ items' = nx.items
        /\ current_title' = nx.current_title
        /\ current_details' = nx.current_details
        /\ item_at' = IF Len(f.items) > Len(items) THEN Append(item_at, title_at)
                      ELSE IF Len(nx.items) > Len(items) THEN Append(item_at, 0)
                      ELSE item_at
    /\ title_at' = 0
    /\ pc' = "items"
    /\ UNCHANGED <<variant, fallback_title, lines, idx, records,
                   canonVars, dedupVars, scanVars, auxVars>>

\* `for it in items` of build_records
BuildRecords ==
    /\ pc = "items"
    /\ records' = build_records(variant, items)
    /\ pc' = "done"
    /\ UNCHANGED <<variant, fallback_title, lines, idx, items, current_title,
                   current_details, title_at, item_at,
                   canonVars, dedupVars, scanVars, auxVars>>

Next == SplitStep \/ SplitReturn \/ BuildRecords

Spec == InitPipe /\ [][Next]_vars

(***************************************************************************)
(* A run of trim_noise_lines on the detail lines of one item, for pr-1.py  *)
(* ("alias") and pr-2.py ("single").                                       *)
(***************************************************************************)
\* the detail lines the trimmer can meet
TrimPool ==
    {<<"o", " ", "daesang", " ", ":", " ", "junggu">>,
     <<"o", " ", "munui", " ", ":", " ", "1", " ", "botong", " ", "a">>,
     <<"munui", " ", ":", " ", "1", " ", "botong">>,
     <<"O", " ", "munui", " ", "LB", "a", "RB">>,
     <<"o", " ", "munui">>,
     <<"o", " ", "munui", " ", "LB", "RB">>,
     <<"o", " ", "botong">>,
     <<"LB", "a", "RB", " ", "b">>,
     <<"junggu", " ", "LB", "RB">>}

InitTrim ==
    /\ pc = "trim"
    /\ variant \in {"alias", "single"}
    /\ lines \in SeqsUpTo(TrimPool, MaxTrim)
    /\ idx = 1
    /\ cleaned = <<>>
    /\ fallback_title = <<>>
    /\ items = <<>>
    /\ current_title = None
    /\ current_details = <<>>
    /\ title_at = 0
    /\ item_at = <<>>
    /\ records = <<>>
    /\ CanonIdle
    /\ DedupIdle
    /\ ScanIdle
    /\ BatchIdle
    /\ KeyIdle
    /\ FetchIdle
    /\ HeadIdle

\* one turn of `for ln in lines` that does not break
TrimKeep ==
    /\ pc = "trim"
    /\ idx <= Len(lines)
    /\ ~TrimLine(variant, lines[idx]).stop
    /\ cleaned' = cleaned \o TrimLine(variant, lines[idx]).keep
    /\ idx' = idx + 1
    /\ UNCHANGED <<pc, variant, fallback_title, lines, items, current_title,
                   current_details, title_at, item_at, records,
                   canonVars, dedupVars, scanVars, batchVars, keyVars, fetchVars, headVars>>

\* the turn that breaks, or the end of the lines: return cleaned
TrimReturn ==
    /\ pc = "trim"
    /\ IF idx > Len(lines) THEN TRUE ELSE TrimLine(variant, lines[idx]).stop
    /\ pc' = "trimmed"
    /\ UNCHANGED <<variant, fallback_title, lines, idx, items, current_title,
                   current_details, title_at, item_at, records, cleaned,
                   canonVars, dedupVars, scanVars, batchVars, keyVars, fetchVars, headVars>>

NextTrim == TrimKeep \/ TrimReturn

SpecTrim == InitTrim /\ [][NextTrim]_vars

(***************************************************************************)
(* A run of build_records of pr-2.py on one page.                          *)
(***************************************************************************)
\* the lines of a page of pr-2.py: those of DocPool and a navigation line
DocPool2 == DocPool \cup {<<"hom">>}

InitSingle ==
    /\ pc = "split"
    /\ variant = "single"
    /\ fallback_title \in TitlePool
    /\ \E doc \in SeqsUpTo(DocPool2, MaxDoc) : lines = StrippedLines(doc)
    /\ idx = 1
    /\ items = <<>>
    /\ current_title = None
    /\ current_details = <<>>
    /\ title_at = 0
    /\ item_at = <<>>
    /\ records = <<>>
    /\ CanonIdle
    /\ DedupIdle
    /\ ScanIdle
    /\ AuxIdle

\* items = split_items(text, fallback_title=item_title)
SplitSingle ==
    /\ pc = "split"
    /\ items' = split_items_single(lines, fallback_title)
    /\ pc' = "items"
    /\ UNCHANGED <<variant, fallback_title, lines, idx, current_title,
                   current_details, title_at, item_at, records,
                   canonVars, dedupVars, scanVars, auxVars>>

\* `for it in items` of build_records
BuildSingle ==
    /\ pc = "items"
    /\ records' = build_records_single(items)
    /\ pc' = "done"
    /\ UNCHANGED <<variant, fallback_title, lines, idx, items, current_title,
                   current_details, title_at, item_at,
                   canonVars, dedupVars, scanVars, auxVars>>

NextSingle == SplitSingle \/ BuildSingle

SpecSingle == InitSingle /\ [][NextSingle]_vars

(***************************************************************************)
(* The batch driver of junggu.py: for each list URL the detail URLs are    *)
(* collected page by page, build_records runs on each of them, and         *)
(* save_records gets all the records.  crawl_all_districts of              *)
(* liveinkorea.py has the same shape, with districts for list URLs.        *)
(***************************************************************************)
\* the detail URLs of the site
DetailUrls == {"u1", "u2"}

\* LIST_URL has two entries
NumLists == 2

\* what a list page answers: fetch_html raises; fetch_html returns None (a
\* blank page with status 200 three times, raise_for_status does not raise);
\* or a page with links
PageAnswers ==
    {[res |-> "raise", hrefs |-> <<>>], [res |-> "blank", hrefs |-> <<>>]}
    \cup {[res |-> "ok", hrefs |-> h] : h \in {<<>>, <<"u1">>, <<"u2">>, <<"u1", "u2">>}}

\* the answer of page n of list l; past the pages that exist, a page
\* without links
PageAnswer(l, n) ==
    IF n <= Len(pages[l]) THEN pages[l][n] ELSE [res |-> "ok", hrefs |-> <<>>]

\* the hrefs of a page that are not in seen, in order (seen is the set of
\* the collected URLs)
RECURSIVE NewUrls(_, _)
NewUrls(hrefs, got) ==
    IF hrefs = <<>> THEN got
    ELSE IF Head(hrefs) \in Range(got) THEN NewUrls(Tail(hrefs), got)
    ELSE NewUrls(Tail(hrefs), Append(got, Head(hrefs)))

InitBatch ==
    /\ pc = "list"
    /\ pages \in [1..NumLists -> SeqsUpTo(PageAnswers, MaxPages)]
    /\ fails \in SUBSET DetailUrls
    /\ list_at = 1
    /\ page = 1
    /\ urls = <<>>
    /\ url_at = 1
    /\ all_records = <<>>
    /\ tried = <<>>
    /\ written = <<>>
    /\ cleaned = <<>>
    /\ CanonIdle
    /\ DedupIdle
    /\ ScanIdle
    /\ PipeIdle
    /\ KeyIdle
    /\ FetchIdle
    /\ HeadIdle

\* `for list_url in LIST_URL`: enter collect_detail_urls_from_list
StartList ==
    /\ pc = "list"
    /\ list_at <= NumLists
    /\ urls' = <<>>
    /\ page' = 1
    /\ pc' = "page"
    /\ UNCHANGED <<pages, fails, list_at, url_at, all_records, tried, written,
                   cleaned, canonVars, dedupVars, scanVars, pipeVars, keyVars, fetchVars, headVars>>

\* one turn of `for page in range(1, max_pages + 1)`, and the return after
\* the last page
FetchPage ==
    /\ pc = "page"
    /\ LET a == PageAnswer(list_at, page)
           got == NewUrls(a.hrefs, urls)
       IN  IF page > MaxPages THEN
               /\ pc' = "docs" /\ url_at' = 1 /\ UNCHANGED <<urls, page>>
           ELSE IF a.res = "raise" THEN
               /\ pc' = "docs" /\ url_at' = 1 /\ UNCHANGED <<urls, page>>
           ELSE IF a.res = "blank" THEN
               /\ pc' = "crashed" /\ UNCHANGED <<urls, page, url_at>>
           ELSE IF got = urls THEN
               /\ pc' = "docs" /\ url_at' = 1 /\ UNCHANGED <<urls, page>>
           ELSE
               /\ urls' = got /\ page' = page + 1 /\ UNCHANGED <<pc, url_at>>
    /\ UNCHANGED <<pages, fails, list_at, all_records, tried, written,
                   cleaned, canonVars, dedupVars, scanVars, pipeVars, keyVars, fetchVars, headVars>>

\* one turn of `for u in urls`: build_records(u) in try / except
ProcessUrl ==
    /\ pc = "docs"
    /\ url_at <= Len(urls)
    /\ tried' = Append(tried, urls[url_at])
    /\ all_records' = IF urls[url_at] \in fails THEN all_records
                      ELSE Append(all_records, urls[url_at])
    /\ url_at' = url_at + 1
    /\ UNCHANGED <<pc, pages, fails, list_at, page, urls, written,
                   cleaned, canonVars, dedupVars, scanVars, pipeVars, keyVars, fetchVars, headVars>>

\* the end of `for u in urls`: the next list URL
NextList ==
    /\ pc = "docs"
    /\ url_at > Len(urls)
    /\ list_at' = list_at + 1
    /\ pc' = "list"
    /\ UNCHANGED <<pages, fails, page, urls, url_at, all_records, tried, written,
                   cleaned, canonVars, dedupVars, scanVars, pipeVars, keyVars, fetchVars, headVars>>

\* save_records(all_records)
SaveAll ==
    /\ pc = "list"
    /\ list_at > NumLists
    /\ written' = all_records
    /\ pc' = "saved"
    /\ UNCHANGED <<pages, fails, list_at, page, urls, url_at, all_records, tried,
                   cleaned, canonVars, dedupVars, scanVars, pipeVars, keyVars, fetchVars, headVars>>

NextBatch == StartList \/ FetchPage \/ ProcessUrl \/ NextList \/ SaveAll

SpecBatch == InitBatch /\ [][NextBatch]_vars

(***************************************************************************)
(* auto_map_key on its own: a key of the page is normalized and mapped, as *)
(* every call site of junggu.py and liveinkorea.py does.                   *)
(***************************************************************************)
\* what a key is made of: the words of the keyword groups, a word of no
\* group, a bullet and a blank
KeyChars == {"daesang", "gigan", "ilsi", "bangbeop", "sincheong", "munui", "jeopsu",
             "jangso", "naeyong", "junggu", "O", " "}

InitKey ==
    /\ pc = "key"
    /\ script \in {"junggu", "liveinkorea"}
    /\ raw_key \in SeqsUpTo(KeyChars, MaxKey)
    /\ mapped_key = "None"
    /\ cleaned = <<>>
    /\ BatchIdle
    /\ FetchIdle
    /\ HeadIdle
    /\ CanonIdle
    /\ DedupIdle
    /\ ScanIdle
    /\ PipeIdle

\* auto_map_key(normalize_key(key))
MapKey ==
    /\ pc = "key"
    /\ mapped_key' = IF script = "junggu" THEN auto_map_key(normalize_key(raw_key))
                     ELSE auto_map_key_live(normalize_key(raw_key))
    /\ pc' = "mapped"
    /\ UNCHANGED <<script, raw_key, cleaned, batchVars, canonVars, dedupVars,
                   scanVars, pipeVars, fetchVars, headVars>>

NextKey == MapKey

SpecKey == InitKey /\ [][NextKey]_vars

(***************************************************************************)
(* SpecAlias: parse_detail_lines_to_fields of pr-1.py and pr-2.py, line by *)
(* line.                                                                   *)
(***************************************************************************)
\* the detail lines an item can hold
AliasPool ==
    {<<"o", " ", "sincheong", " ", "gigan", " ", "1", ".", "2">>,
     <<"sincheong", " ", " ", "gigan", " ", "junggu">>,
     <<"sincheong", " ", "junggu">>,
     <<"sincheong", "bangbeop", " ", "bangmun", " ", "jeopsu">>,
     <<"o", " ", "daesang", " ", ":", " ", "junggu">>,
     <<"munui">>,
     <<"botong">>}

InitAlias ==
    /\ pc = "alias"
    /\ variant \in {"alias", "single"}
    /\ fallback_title = <<>>
    /\ lines = <<>>
    /\ idx = 1
    /\ items = <<>>
    /\ current_title = None
    /\ current_details = <<>>
    /\ title_at = 0
    /\ item_at = <<>>
    /\ records = <<>>
    /\ ScanIdle
    /\ CanonIdle
    /\ DedupIdle
    /\ AuxIdle

\* one iteration of `for raw in detail_lines`
AliasLine ==
    /\ pc = "alias"
    /\ Len(scanned) < MaxScan
    /\ \E raw \in AliasPool :
          LET st == [fields |-> fields, current_section |-> current_section]
              nx == IF variant = "alias" THEN ParseLineP(st, raw)
                    ELSE ParseLine2(st, raw)
          IN
          /\ fields' = nx.fields
          /\ current_section' = nx.current_section
          /\ scanned' = Append(scanned, raw)
    /\ UNCHANGED <<pc, locked_section, branch, canonVars, dedupVars, pipeVars,
                   auxVars>>

NextAlias == AliasLine

SpecAlias == InitAlias /\ [][NextAlias]_vars

(***************************************************************************)
(* SpecFetch: fetch_html (the same function in the four scripts).          *)
(***************************************************************************)
\* range(3)
Attempts == 3

\* what requests.get can give: it raises (time-out, no connection), or a
\* response with r.ok and r.text
Responses ==
    {[raises |-> TRUE, ok |-> FALSE, text |-> <<>>]}
    \cup {[raises |-> FALSE, ok |-> k, text |-> b] :
             k \in BOOLEAN, b \in {<<>>, <<" ", "NL">>, <<"junggu">>, <<"<", "annae", ">">>}}

InitFetch ==
    /\ pc = "get"
    /\ answers \in [1..Attempts -> Responses]
    /\ attempt = 1
    /\ fetched = None
    /\ cleaned = <<>>
    /\ BatchIdle
    /\ KeyIdle
    /\ HeadIdle
    /\ CanonIdle
    /\ DedupIdle
    /\ ScanIdle
    /\ PipeIdle

\* one turn of `for i in range(3)`
Request ==
    /\ pc = "get"
    /\ attempt <= Attempts
    /\ LET r == answers[attempt] IN
       IF r.raises THEN
           /\ pc' = "raised" /\ UNCHANGED <<attempt, fetched>>
       ELSE IF r.ok /\ Strip(r.text) # <<>> THEN
           /\ pc' = "returned" /\ fetched' = r.text /\ UNCHANGED attempt
       ELSE
           /\ attempt' = attempt + 1 /\ UNCHANGED <<pc, fetched>>
    /\ UNCHANGED <<answers, cleaned, batchVars, keyVars, headVars, canonVars,
                   dedupVars, scanVars, pipeVars>>

\* r.raise_for_status() on the last response, and the end of the function
RaiseForStatus ==
    /\ pc = "get"
    /\ attempt > Attempts
    /\ IF answers[Attempts].ok
       THEN pc' = "returned" /\ fetched' = None
       ELSE pc' = "raised" /\ UNCHANGED fetched
    /\ UNCHANGED <<answers, attempt, cleaned, batchVars, keyVars, headVars,
                   canonVars, dedupVars, scanVars, pipeVars>>

NextFetch == Request \/ RaiseForStatus

SpecFetch == InitFetch /\ [][NextFetch]_vars

(***************************************************************************)
(* SpecLive: build_record of liveinkorea.py, from the header pairs of the  *)
(* page (dd.call_tell) to the record.                                      *)
(***************************************************************************)
LiveKeys == {"target", "period", "content", "method", "contact", "location"}

\* a dd.call_tell: whether it has both span.date and span.count, and their
\* texts
PairPool ==
    {[present |-> FALSE, label |-> <<>>, value |-> <<>>]}
    \cup {[present |-> TRUE, label |-> l, value |-> v] :
             l \in {<<"gigan">>, <<"ilsi">>, <<"munui">>, <<"jangso">>,
                    <<"naeyong">>, <<"junggu">>},
             v \in {<<"1">>, <<"2">>}}

\* f"{label} : {value}"
LabelValue(dd) == dd.label \o <<" ", ":", " ">> \o dd.value

InitLive ==
    /\ pc = "header"
    /\ pairs \in SeqsUpTo(PairPool, MaxPairs)
    /\ body_text \in {<<>>, <<"annae", " ">>}
    /\ pair_at = 1
    /\ live_fields = [k \in LiveKeys |-> None]
    /\ period_parts = <<>>
    /\ head_lines = <<>>
    /\ live_record = <<>>
    /\ cleaned = <<>>
    /\ BatchIdle
    /\ KeyIdle
    /\ FetchIdle
    /\ CanonIdle
    /\ DedupIdle
    /\ ScanIdle
    /\ PipeIdle

\* one turn of `for dd in soup.select("dd.call_tell")`
HeaderPair ==
    /\ pc = "header"
    /\ pair_at <= Len(pairs)
    /\ LET dd == pairs[pair_at]
           mapped == auto_map_key_live(normalize_key(dd.label))
       IN  IF ~dd.present THEN UNCHANGED <<live_fields, period_parts, head_lines>>
           ELSE /\ head_lines' = Append(head_lines, LabelValue(dd))
                /\ IF Has(dd.label, {"gigan"}) THEN
                       /\ period_parts' = Append(period_parts, LabelValue(dd))
                       /\ UNCHANGED live_fields
                   ELSE IF mapped # "None" THEN
                       /\ live_fields' = [live_fields EXCEPT ![mapped] =
                              IF mapped = "contact" THEN LabelValue(dd) ELSE dd.value]
                       /\ UNCHANGED period_parts
                   ELSE UNCHANGED <<live_fields, period_parts>>
    /\ pair_at' = pair_at + 1
    /\ UNCHANGED <<pc, pairs, body_text, live_record, cleaned, batchVars, keyVars,
                   fetchVars, canonVars, dedupVars, scanVars, pipeVars>>

\* fields.get(k, "")
GetLive(flds, k) == IF flds[k] = None THEN <<>> ELSE flds[k]

\* after the loop: the period of the 기간 pairs, the body text, the record
BuildRecord ==
    /\ pc = "header"
    /\ pair_at > Len(pairs)
    /\ LET flds == IF period_parts # <<>>
                   THEN [live_fields EXCEPT !["period"] = Join(period_parts, <<" ", "/", " ">>)]
                   ELSE live_fields
           all_lines == IF body_text # <<>> THEN Append(head_lines, Strip(body_text))
                        ELSE head_lines
           full_text == <<"LB", "junggu", "RB", " ", "geomjin", "NL">>
                        \o Join(all_lines, <<"NL">>)
       IN  /\ live_fields' = flds
           /\ head_lines' = all_lines
           /\ live_record' =
                 [region |-> <<"junggu">>,
                  item_title |-> <<"geomjin">>,
                  target |-> GetLive(flds, "target"),
                  period |-> GetLive(flds, "period"),
                  content |-> Strip(body_text),
                  method |-> GetLive(flds, "method"),
                  contact |-> GetLive(flds, "contact"),
                  location |-> GetLive(flds, "location"),
                  image |-> <<>>,
                  full_text |-> Strip(full_text),
                  source_url |-> <<"url">>]
    /\ pc' = "built"
    /\ UNCHANGED <<pairs, pair_at, period_parts, body_text, cleaned, batchVars,
                   keyVars, fetchVars, canonVars, dedupVars, scanVars, pipeVars>>

NextLive == HeaderPair \/ BuildRecord

SpecLive == InitLive /\ [][NextLive]_vars

(***************************************************************************)
(* Claims about _canon_text and save_records.                              *)
(***************************************************************************)
\* the rows of df that no earlier row equals in every canonicalized
\* comparison column
SameCanon(r1, r2) ==
    \A c \in ColSet \ {"source_url", "full_text"} : _canon_text(r1[c]) = _canon_text(r2[c])

FirstOfGroup(i) == \A j \in 1..(i - 1) : ~SameCanon(df[j], df[i])

Firsts == {i \in 1..Len(df) : FirstOfGroup(i)}

\* the k-th smallest index of a set of indices
KthOf(S, k) == CHOOSE i \in S : Cardinality({j \in S : j < i}) = k - 1

\* the words of a string, line by line: what is left of it when its layout
\* (blanks, zero-width marks, blank lines) is forgotten
WordsOf(str) ==
    LET ls == SplitOn(Remove(str, {"ZW"}), {"NL"})
        ws == [i \in 1..Len(ls) |-> SplitOn(ls[i], {" ", "TAB", "NBSP"})]
    IN  SelectSeq(ws, LAMBDA w : w # <<>>)

\* two rows that differ at most in source_url, in full_text and in the white
\* space layout of content
SameButLayout(r1, r2) ==
    /\ \A c \in ColSet \ {"source_url", "full_text", "content"} : r1[c] = r2[c]
    /\ r1["content"] # None
    /\ r2["content"] # None
    /\ WordsOf(r1["content"]) = WordsOf(r2["content"])

\* C6: the canonicalize-and-drop-duplicates step of save_records applied to
\* its own output returns that output unchanged: same rows, same order, same
\* field values.
C6_DedupIdempotent == pc = "resaved" => resaved = saved

\* a run where the first pass dropped a duplicate and rewrote a field
C6_Witness ==
    /\ pc = "resaved"
    /\ Len(saved) = 2
    /\ Len(df) = 3
    /\ \E i \in 1..Len(df) : df[i]["content"] # None /\ _canon_text(df[i]["content"]) # df[i]["content"]

\* C7: _canon_text(_canon_text(s)) = _canon_text(s) for every input s.
C7_CanonIdempotent == pc = "recanon" => out2 = out

\* an input the first pass changes and does not empty
C7_Witness == pc = "recanon" /\ s # None /\ out # s /\ Len(out) >= 3

\* C8: two rows collapse iff all their canonicalized columns other than
\* source_url and full_text are equal; of each group of duplicates exactly
\* the first row is kept, the kept rows keep their input order, and two rows
\* that differ only in source_url and in the layout of content give one row.
C8_KeepsFirstOfEachGroup ==
    pc = "saved" =>
        /\ Len(saved) = Cardinality(Firsts)
        /\ \A k \in 1..Len(saved) :
              LET i == KthOf(Firsts, k) IN
              /\ SameCanon(saved[k], df[i])
              /\ saved[k]["source_url"] = df[i]["source_url"]
              /\ saved[k]["full_text"] = df[i]["full_text"]
        /\ (Len(df) = 2 /\ SameButLayout(df[1], df[2])) => Len(saved) = 1

\* three rows, the third a duplicate of the first with another source_url and
\* another layout of content, the second a different row
C8_Witness ==
    /\ pc = "saved"
    /\ Len(df) = 3
    /\ Len(saved) = 2
    /\ SameButLayout(df[1], df[3])
    /\ df[1]["content"] # df[3]["content"]
    /\ df[1]["source_url"] # df[3]["source_url"]
    /\ saved[1]["source_url"] = df[1]["source_url"]
    /\ saved[2]["source_url"] = df[2]["source_url"]

\* C9: deduplication changes no field value of a row it keeps: every kept row
\* equals, in every column, the first input row of its duplicate group.
C9_KeepsRowsVerbatim ==
    pc = "saved" =>
        \A k \in 1..Len(saved) :
            \E i \in Firsts : saved[k] = df[i]

(***************************************************************************)
(* Claims about the locked section of junggu.py.                           *)
(***************************************************************************)
\* the line the last step read, as the loop sees it
LastText == Strip(Remove(scanned'[Len(scanned')], ZERO_WIDTH))

IsPrefix(p, str) == Len(p) <= Len(str) /\ SubSeq(str, 1, Len(p)) = p

\* new is old followed by v; the blanks and slashes between them and at the
\* ends are the separator " / " and what strip(" /") takes away
AppendedTo(old, v, new) ==
    /\ IsPrefix(old, new)
    /\ StripSet(SubSeq(new, Len(old) + 1, Len(new)), {" ", "/"}) = StripSet(v, {" ", "/"})

OthersUnchanged(k) == \A j \in FieldKeys \ {k} : fields'[j] = fields[j]

\* C1: once a line has resolved to method (key:value, key-value or bare
\* header) the scan is locked on method, and every following non-blank line
\* is appended to the method field until a line classifies to a canonical key
\* other than method; the locked section is never anything but none or method.
C1_LockedOnMethod ==
    [][ /\ locked_section \in {"None", "method"}
        /\ locked_section' \in {"None", "method"}
        /\ (branch' \in {"colon", "dash", "header"} /\ current_section' = "method")
              => locked_section' = "method"
        /\ (locked_section = "method" /\ LastText # <<>>
              /\ LockedMapped(LastText) \in {"None", "method"})
              => /\ locked_section' = "method"
                 /\ current_section' = "method"
                 /\ AppendedTo(Get(fields, "method"), LastText, Get(fields', "method"))
                 /\ OthersUnchanged("method")
        /\ (locked_section = "method" /\ LastText = <<>>)
              => fields' = fields /\ locked_section' = "method"
      ]_vars

\* a method header, then two lines appended to method while locked
C1_Witness ==
    /\ Len(scanned) = 3
    /\ scanned[1] = <<"sincheong", "bangbeop", " ", "-", " ", "bangmun">>
    /\ scanned[3] = <<"junggu">>
    /\ locked_section = "method"
    /\ branch = "locked"
    /\ fields["method"] = scanned[1] \o <<" ", "/", " ">> \o scanned[2] \o <<" ", "/", " ">> \o scanned[3]

\* a line that holds no key, as an unlocked scan classifies it
Unlabeled(text) == auto_map_key(normalize_key(Stripped(text))) = "None"

\* C2: while locked on method, a line that classifies to another key K
\* unlocks: current_section becomes K, the text after the line's delimiter is
\* appended to K and nothing of the line goes to method; the unlabeled lines
\* that follow are appended to K, and method changes again only with a method
\* line.  For the header, two numbered lines and then "jangso : v", method is
\* the two numbered lines and location is v.
C2_UnlockSwitchesSection ==
    [][ /\ (locked_section = "method" /\ LastText # <<>>
              /\ LockedMapped(LastText) \notin {"None", "method"})
              => /\ locked_section' = "None"
                 /\ current_section' = LockedMapped(LastText)
                 /\ AppendedTo(Get(fields, current_section'),
                               IF Has(LastText, Delims) THEN After(LastText, Delims) ELSE <<>>,
                               Get(fields', current_section'))
                 /\ \A j \in FieldKeys \ {current_section'} : Get(fields', j) = Get(fields, j)
        /\ (locked_section = "None" /\ current_section # "None"
              /\ LastText # <<>> /\ Unlabeled(LastText))
              => /\ current_section' = current_section
                 /\ locked_section' = "None"
                 /\ AppendedTo(Get(fields, current_section), LastText, Get(fields', current_section))
                 /\ OthersUnchanged(current_section)
        /\ Get(fields', "method") # Get(fields, "method")
              => \/ locked_section = "method"
                 \/ branch' \in {"colon", "dash"} /\ current_section' = "method"
        /\ scanned' = << <<"o", " ", "sincheong", "bangbeop">>,
                         <<"1", ".", " ", "bangmun", " ", "jeopsu">>,
                         <<"2", ".", " ", "bangmun", " ", "jeopsu">>,
                         <<"o", " ", "jangso", " ", ":", " ", "junggu">> >>
              => /\ fields'["method"] = scanned'[2] \o <<" ", "/", " ">> \o scanned'[3]
                 /\ fields'["location"] = <<"junggu">>
                 /\ \A j \in FieldKeys \ {"method", "location"} : fields'[j] = None
      ]_vars

\* the scenario, then an unlabeled line that goes to location
C2_Witness ==
    /\ Len(scanned) = 4
    /\ scanned[1] = <<"o", " ", "sincheong", "bangbeop">>
    /\ scanned[2] = <<"1", ".", " ", "bangmun", " ", "jeopsu">>
    /\ scanned[3] = <<"o", " ", "jangso", " ", ":", " ", "junggu">>
    /\ scanned[4] = <<"2", ".", " ", "bangmun", " ", "jeopsu">>
    /\ locked_section = "None"
    /\ current_section = "location"
    /\ fields["method"] = scanned[2]
    /\ fields["location"] = <<"junggu">> \o <<" ", "/", " ">> \o scanned[4]

(***************************************************************************)
(* Claims about key : value lines, split_items and full_text.              *)
(***************************************************************************)
\* part occurs in text at position p
OccursAt(text, part, p) ==
    /\ p >= 1
    /\ p + Len(part) - 1 <= Len(text)
    /\ SubSeq(text, p, p + Len(part) - 1) = part

Contains(text, part) == \E p \in 1..(Len(text) + 1) : OccursAt(text, part, p)

\* the parts occur in text one after the other, from position `from` on
RECURSIVE ContainsInOrder(_, _, _)
ContainsInOrder(text, parts, from) ==
    IF parts = <<>> THEN TRUE
    ELSE LET ps == {p \in from..(Len(text) + 1) : OccursAt(text, Head(parts), p)} IN
         /\ ps # {}
         /\ LET p == CHOOSE q \in ps : \A r \in ps : q <= r IN
            ContainsInOrder(text, Tail(parts), p + Len(Head(parts)))

\* C3: a detail line "key <delimiter> value" whose key normalizes to a known
\* canonical key and whose value is not empty has its value in the field of
\* that key once the lines are parsed, whatever the other lines are (stated
\* for the parser of junggu.py, whose lines read so far are `scanned`).
C3_KeyValueLineStored ==
    \A i \in 1..Len(scanned) :
        LET text == Strip(Remove(scanned[i], ZERO_WIDTH))
            key == Before(text, Delims)
            value == Strip(After(text, Delims))
            K == auto_map_key(normalize_key(key))
        IN  (Has(text, Delims) /\ K # "None" /\ value # <<>>)
                => Contains(Get(fields, K), value)

\* the known keys a line can be labelled with, and the value of a line
\* "ㅇ key : value"
KnownKeys == {<<"daesang">>, <<"gigan">>, <<"munui">>, <<"jangso">>,
              <<"naeyong">>, <<"sincheong", "bangbeop">>}

KeyLabel(ln) == Strip(Before(SubSeq(ln, 2, Len(ln)), {":"}))
ValueText(ln) == Strip(After(ln, {":"}))

KeyLine(ln) ==
    /\ Len(ln) >= 2
    /\ ln[1] = "o"
    /\ ln[2] = " "
    /\ Has(ln, {":"})
    /\ KeyLabel(ln) \in KnownKeys
    /\ ValueText(ln) # <<>>

\* the column a key label stands for in the records of each script
ColumnOf(label) ==
    CASE label = <<"daesang">> -> "target"
      [] label = <<"gigan">>   -> IF variant = "keyword" THEN "period" ELSE "application_period"
      [] label = <<"munui">>   -> "contact"
      [] label = <<"jangso">>  -> "location"
      [] label = <<"naeyong">> -> "content"
      [] label = <<"sincheong", "bangbeop">> ->
            IF variant = "keyword" THEN "method" ELSE "application_method"

\* the page is one "▶ title" line followed by "ㅇ key : value" lines with
\* distinct known keys
Scenario1Page ==
    /\ Len(lines) >= 2
    /\ Head(lines[1]) = "TRI"
    /\ Strip(Tail(lines[1])) # <<>>
    /\ \A i \in 2..Len(lines) : KeyLine(lines[i])
    /\ \A i, j \in 2..Len(lines) : KeyLabel(lines[i]) = KeyLabel(lines[j]) => i = j

\* extraction: parse_detail_lines_to_fields on the detail lines of an item
\* that split_items returned
Extracted(it) ==
    IF variant = "keyword" THEN ParseFieldsJ(it.detail_lines)
    ELSE ParseFieldsP(it.detail_lines)

\* C4 as the specification states it: one item, titled by the text after
\* the marker, and the field of each key is exactly the value text
C4_ExactValues ==
    (pc = "done" /\ Scenario1Page) =>
        /\ Len(items) = 1
        /\ items[1].item_title = Strip(Tail(lines[1]))
        /\ \A i \in 2..Len(lines) :
              Extracted(items[1])[ColumnOf(KeyLabel(lines[i]))] = ValueText(lines[i])

\* what junggu.py stores for line i of such a page: the line's "ㅇ key :
\* value", or the value alone for the line that follows the method line;
\* blanks and slashes at the two ends are cut
StoredKeyword(i) ==
    IF i > 2 /\ KeyLabel(lines[i - 1]) = <<"sincheong", "bangbeop">>
    THEN StripSet(ValueText(lines[i]), {" ", "/"})
    ELSE StripSet(Strip(Before(lines[i], {":"})) \o <<" ", ":", " ">> \o ValueText(lines[i]),
                  {" ", "/"})

\* what pr-1.py stores for line i of such a page: the value text, for a
\* contact the part of it before the first boilerplate word, None if none
StoredAlias(i) ==
    LET cut == Strip(Before(ValueText(lines[i]), {"LB", "cheombu", "hwagin"})) IN
    IF KeyLabel(lines[i]) # <<"munui">> THEN ValueText(lines[i])
    ELSE IF cut = <<>> THEN None
    ELSE cut

\* C4: for a page made of one "▶ title" line followed by "ㅇ key : value"
\* lines with distinct known keys, there is exactly one item, its title is
\* the text after the marker, and the field of each key is, in pr-1.py, the
\* value text (a contact value cut at its first boilerplate word) and, in
\* junggu.py, the line with its bullet and key label (the value alone for
\* the line after the method line).
C4_ValuesPerVariant ==
    (pc = "done" /\ Scenario1Page) =>
        /\ Len(items) = 1
        /\ items[1].item_title = Strip(Tail(lines[1]))
        /\ \A i \in 2..Len(lines) :
              Extracted(items[1])[ColumnOf(KeyLabel(lines[i]))] =
                  IF variant = "keyword" THEN StoredKeyword(i) ELSE StoredAlias(i)

\* pr-1.py on the title, a target line and a contact line whose value is a
\* boilerplate word
C4_Witness ==
    /\ pc = "done"
    /\ variant = "alias"
    /\ Scenario1Page
    /\ Len(lines) = 3
    /\ \E i \in 2..3 : KeyLabel(lines[i]) = <<"munui">>
    /\ \E i \in 2..3 : KeyLabel(lines[i]) = <<"daesang">>
    /\ Len(items) = 1
    /\ Extracted(items[1])["target"] = <<"junggu">>
    /\ records[1]["target"] = <<"junggu">>

\* C5 as the specification states it: full_text holds the title and every
\* detail line of the item, in order
C5_FullTextHasEveryLine ==
    pc = "done" =>
        \A i \in 1..Len(records) :
            ContainsInOrder(records[i]["full_text"],
                            <<items[i].item_title>> \o items[i].detail_lines, 1)

\* the detail lines of an item that reach its record: all of them in
\* junggu.py, the ones trim_noise_lines leaves in pr-1.py
KeptLines(detail_lines) ==
    IF variant = "keyword" THEN detail_lines ELSE trim_noise_lines(detail_lines)

\* C5: the full_text of every record holds the title of its item and, in
\* order, every detail line of the item that the noise trimmer leaves (a
\* contact line as the trimmer cuts it); junggu.py has no trimmer and holds
\* them all, whatever key the lines classify to.
C5_FullTextHasKeptLines ==
    pc = "done" =>
        /\ Len(records) = Len(items)
        /\ \A i \in 1..Len(records) :
            ContainsInOrder(records[i]["full_text"],
                            <<items[i].item_title>> \o KeptLines(items[i].detail_lines), 1)

\* pr-1.py, an item of which the trimmer cuts a part and leaves a part
C5_Witness ==
    /\ pc = "done"
    /\ variant = "alias"
    /\ \E i \in 1..Len(items) :
        /\ trim_noise_lines(items[i].detail_lines) # items[i].detail_lines
        /\ trim_noise_lines(items[i].detail_lines) # <<>>

DuplicatesTitle(ln) ==
    /\ fallback_title # <<>>
    /\ Strip(Remove(ln, {"<", ">"})) = Strip(Remove(fallback_title, {"<", ">"}))

\* C11: when no title line gave an item and the page has a line, split_items
\* returns exactly one item, titled by the page title (by the placeholder
\* when there is none), whose detail lines are the lines of the page in
\* order except the lines that repeat the page title.
C11_FallbackItem ==
    (pc # "split" /\ item_at = <<0>>) =>
        /\ Len(items) = 1
        /\ items[1].item_title =
              (IF fallback_title # <<>> THEN fallback_title ELSE <<"(bonmun)">>)
        /\ items[1].detail_lines = SelectSeq(lines, LAMBDA ln : ~DuplicatesTitle(ln))

\* C14: a page without a usable line gives no item and no record.
C14_EmptyPageNoRecord ==
    (pc = "done" /\ lines = <<>>) => (items = <<>> /\ records = <<>>)

\* the text between the brackets of a bracket line
InnerText(ln) == Strip(SubSeq(ln, 2, Len(ln) - 1))

\* C18: a line wrapped in a bracket pair is an item boundary (it is never a
\* detail line of an item that a title line opened), and the item it opens
\* has the text between the brackets, without them, as title.
C18_BracketTitleIsInnerText ==
    \A i \in 1..Len(items) :
        (i <= Len(item_at) /\ item_at[i] > 0) =>
            /\ \A j \in 1..Len(items[i].detail_lines) :
                  ~AngleTitle(items[i].detail_lines[j])
            /\ AngleTitle(Strip(lines[item_at[i]]))
                  => items[i].item_title = InnerText(Strip(lines[item_at[i]]))

(***************************************************************************)
(* Claims about trim_noise_lines.                                          *)
(***************************************************************************)
\* the line begins with the inquiry header, behind a bullet or not
ContactHeader(ln) ==
    LET rest == LStripSet(ln, {"o", "O"} \cup WS) IN
    rest # <<>> /\ Head(rest) = "munui"

\* the line holds the survey word or a bracketed tag
NoiseLine(ln) == NoiseAt(Strip(ln), 1, 1) # 0

\* the first line that is not a contact line and holds noise, Len + 1
\* without one
FirstNoiseLine ==
    LET hits == {i \in 1..Len(lines) : ~ContactHeader(lines[i]) /\ NoiseLine(lines[i])} IN
    IF hits = {} THEN Len(lines) + 1 ELSE CHOOSE i \in hits : \A j \in hits : i <= j

\* C12: trim_noise_lines keeps, in order, every line before the first line
\* that is not a contact line and matches a noise pattern, and drops that
\* line and all that follow; a line that is not a contact line is kept as it
\* is, a contact line never ends the scan and is kept cut at its first noise
\* (bracket pair or survey word) when something is left of it.
C12_TrimKeepsPrefix ==
    pc = "trimmed" =>
        cleaned = SelectSeq(
            [i \in 1..(FirstNoiseLine - 1) |->
                IF ContactHeader(lines[i]) THEN CutAtNoise(Strip(lines[i])) ELSE lines[i]],
            LAMBDA ln : ln # <<>>)

(***************************************************************************)
(* Claims about the accumulation of the fields of junggu.py.               *)
(***************************************************************************)
IsSuffix(p, str) ==
    Len(p) <= Len(str) /\ SubSeq(str, Len(str) - Len(p) + 1, Len(str)) = p

\* v is text of the line just read: the line, its value, or its key and
\* value, the blanks aside
FromLastLine(v) ==
    /\ v # <<>>
    /\ IsSuffix(Remove(v, WS), Remove(LastText, WS))

\* C13: the accumulation is append-only: after every line each field has
\* its former value as a prefix, and a field that held a non-empty value e
\* and changes becomes exactly e, " / " and the contribution of the line,
\* stored as it is.
C13_AppendOnly ==
    [][\A k \in FieldKeys :
          /\ IsPrefix(Get(fields, k), Get(fields', k))
          /\ (Get(fields, k) # <<>> /\ Get(fields', k) # Get(fields, k)) =>
                \E n \in 1..Len(fields'[k]) :
                    LET v == SubSeq(fields'[k], n, Len(fields'[k])) IN
                    /\ FromLastLine(v)
                    /\ fields'[k] = fields[k] \o <<" ", "/", " ">> \o v]_vars

(***************************************************************************)
(* Claims about the batch driver.                                          *)
(***************************************************************************)
\* the URLs of a sequence whose build_records does not raise, in order
RECURSIVE Succeeded(_)
Succeeded(us) ==
    IF us = <<>> THEN <<>>
    ELSE IF Head(us) \in fails THEN Succeeded(Tail(us))
    ELSE <<Head(us)>> \o Succeeded(Tail(us))

\* C15: a fetch or render failure for one URL never aborts the run: the run
\* does not end before save_records, and the records gathered, and at the
\* end the records saved, are those of every document build_records was
\* called on and did not fail, whatever happened to the URLs before it.
C15_FailureNeverAborts ==
    /\ pc # "crashed"
    /\ pc \in {"docs", "list", "saved"} => all_records = Succeeded(tried)
    /\ pc = "saved" => written = Succeeded(tried)

(***************************************************************************)
(* Claims about reference lines and bare headers of junggu.py.             *)
(***************************************************************************)
\* the section a plain sentence goes to
OpenSection == IF current_section = "None" THEN "content" ELSE current_section

\* C16: a line that begins with the reference mark is never a classification
\* candidate, locked or not, whatever delimiter it holds: it leaves
\* current_section and the lock as they are, and its text is appended to the
\* open section, or to content when none is open.
C16_ReferenceLineIsCommentary ==
    [][(LastText # <<>> /\ Head(LastText) = "REF")
          => /\ current_section' = current_section
             /\ locked_section' = locked_section
             /\ AppendedTo(Get(fields, OpenSection), LastText, Get(fields', OpenSection))
             /\ OthersUnchanged(OpenSection)
      ]_vars

\* the words auto_map_key looks for
Keywords == {"daesang", "gigan", "ilsi", "bangbeop", "munui", "jeopsu", "jangso",
             "naeyong"}

\* the whole line is a header: bullet and blanks aside it ends with the
\* keyword, nothing follows it
WholeLineHeader(text) ==
    LET w == Remove(Stripped(text), WS \cup KeySymbols) IN
    w # <<>> /\ w[Len(w)] \in Keywords

\* C17: a line without delimiter is consumed as a bare header only when the
\* whole line is a header; every other line without delimiter leaves
\* current_section as it is and is appended verbatim to it, or to content
\* when no section is open, so that its text is in a field.
C17_SentenceIsAppended ==
    [][(LastText # <<>> /\ ~Has(LastText, Delims) /\ ~WholeLineHeader(LastText))
          => /\ current_section' = current_section
             /\ AppendedTo(Get(fields, OpenSection), LastText, Get(fields', OpenSection))
             /\ OthersUnchanged(OpenSection)
      ]_vars

(***************************************************************************)
(* Claims about auto_map_key.                                              *)
(***************************************************************************)
\* the keyword groups in the order of the claim, with the keywords each
\* script gives them
KeywordGroups ==
    << [canonical |-> "target", words |-> {"daesang"}],
       [canonical |-> "period", words |-> {"gigan", "ilsi"}],
       [canonical |-> "method",
        words |-> IF script = "junggu" THEN {"bangbeop"}
                  ELSE {"bangbeop", "sincheong", "jeopsu"}],
       [canonical |-> "contact",
        words |-> IF script = "junggu" THEN {"munui", "jeopsu"} ELSE {"munui"}],
       [canonical |-> "location", words |-> {"jangso"}],
       [canonical |-> "content", words |-> {"naeyong"}] >>

\* a keyword of group g occurs in the normalized key
GroupMatches(g) ==
    \E w \in KeywordGroups[g].words :
        \E i \in 1..Len(normalize_key(raw_key)) : normalize_key(raw_key)[i] = w

\* C19: auto_map_key returns the canonical key of the first group, in the
\* order target, period, method, contact, location, content, that has a
\* keyword in the normalized key, and no key when no group has one; a key
\* with keywords of two groups resolves to the earlier group.
C19_FirstGroupInOrder ==
    pc = "mapped" =>
        /\ \A g \in 1..6 :
              (GroupMatches(g) /\ \A h \in 1..(g - 1) : ~GroupMatches(h))
                 => mapped_key = KeywordGroups[g].canonical
        /\ (\A g \in 1..6 : ~GroupMatches(g)) => mapped_key = "None"
        /\ \A g, h \in 1..6 :
              (g < h /\ GroupMatches(g) /\ GroupMatches(h))
                 => mapped_key # KeywordGroups[h].canonical

\* a key with a method word and a period word resolves to period
C19_Witness ==
    /\ pc = "mapped"
    /\ script = "junggu"
    /\ raw_key = <<"sincheong", "bangbeop", "gigan">>
    /\ mapped_key = "period"

(***************************************************************************)
(* Claims about the header prefixes of pr-1.py and pr-2.py.                *)
(***************************************************************************)
\* the words of a line, its leading bullet aside
HeadWords(text) ==
    LET w == SplitOn(text, WS) IN
    IF w # <<>> /\ w[1] = <<"o">> THEN Tail(w) ELSE w

\* the first n words as the alias table sees them
PrefixKey(w, n) == KEY_ALIAS(Join(SubSeq(w, 1, n), <<>>))

\* the number of words of the longest prefix that is an alias, 0 without one
AliasPrefix(w) ==
    LET ns == {n \in 1..Len(w) : PrefixKey(w, n) # "None"} IN
    IF ns = {} THEN 0 ELSE CHOOSE n \in ns : \A m \in ns : m <= n

\* C20: for a line that is not a key : value line, the longest word prefix
\* that is an alias gives the field; the words of the line after that prefix,
\* and nothing else, are appended to that field, and current_section becomes
\* that field.
C20_LongestPrefixAndRest ==
    [][(LastText # <<>> /\ ~Has(LastText, Delims)
          /\ AliasPrefix(HeadWords(LastText)) > 0)
          => LET w == HeadWords(LastText)
                 n == AliasPrefix(w)
                 f == PrefixKey(w, n)
             IN  /\ current_section' = f
                 /\ AppendedTo(Get(fields, f), Join(SubSeq(w, n + 1, Len(w)), <<" ">>),
                               Get(fields', f))
                 /\ \A j \in FieldKeys \ {f} : Get(fields', j) = Get(fields, j)
      ]_vars

(***************************************************************************)
(* Claims about fetch_html.                                                *)
(***************************************************************************)
\* the response is OK and its body is not blank
GoodResponse(r) == ~r.raises /\ r.ok /\ Strip(r.text) # <<>>

\* C21: fetch_html makes at most three requests and has two outcomes: it
\* returns the non-blank body of the first OK response, or it fails with an
\* error when no attempt gave an OK response with a non-blank body; it never
\* returns without markup.
C21_MarkupOrError ==
    /\ attempt <= Attempts + 1
    /\ pc = "returned" =>
          /\ fetched # None
          /\ Strip(fetched) # <<>>
          /\ attempt <= Attempts
          /\ GoodResponse(answers[attempt])
          /\ fetched = answers[attempt].text
          /\ \A i \in 1..(attempt - 1) : ~GoodResponse(answers[i])
    /\ pc = "raised" => \A i \in 1..Attempts : i <= attempt => ~GoodResponse(answers[i])

(***************************************************************************)
(* Claims about the pipeline of pr-1.py.                                   *)
(***************************************************************************)
\* the title line the line n of the page stands under, 0 without one
TitleAbove(n) ==
    LET ts == {m \in 1..(n - 1) : Opens(lines[m])} IN
    IF ts = {} THEN 0 ELSE CHOOSE m \in ts : \A k \in ts : k <= m

\* C22: in pr-1.py (split_items, trim_noise_lines, then
\* parse_detail_lines_to_fields) a "ㅇ key : value" line of an item that
\* stands before the first noise line of the page and is neither a noise
\* line nor a contact line is kept by the trimming, and its value is in the
\* field of its key in the record of the item.
C22_KeyLineBeforeNoiseIsKept ==
    (pc = "done" /\ variant = "alias") =>
        \A n \in 1..Len(lines) :
            (/\ KeyLine(lines[n])
             /\ TitleAbove(n) > 0
             /\ n < FirstNoiseLine
             /\ ~NoiseLine(lines[n])
             /\ ~ContactHeader(lines[n]))
            => \E i \in 1..Len(records) :
                  /\ item_at[i] = TitleAbove(n)
                  /\ Contains(records[i][ColumnOf(KeyLabel(lines[n]))], ValueText(lines[n]))

(***************************************************************************)
(* Claims about build_record of liveinkorea.py.                            *)
(***************************************************************************)
\* the canonical key of a header label
LabelKey(dd) == auto_map_key_live(normalize_key(dd.label))

\* C23: every header pair whose label classifies to a canonical key has its
\* value in the field of that key of the record: neither a later pair of the
\* same key nor the assignment of the joined 기간 pairs to period replaces
\* the value of an earlier pair.
C23_HeaderValuesKept ==
    pc = "built" =>
        \A i \in 1..Len(pairs) :
            (pairs[i].present /\ LabelKey(pairs[i]) # "None")
               => Contains(live_record[LabelKey(pairs[i])], pairs[i].value)

=============================================================================
